---- MODULE Spec2Model ----
(***************************************************************************)
(* Model of the vitis_algs data package: the expression-data loader        *)
(* (src/src/vitis_algs/data/loader.py) and the dataset built on its output *)
(* (src/src/vitis_algs/data/datasets.py).                                  *)
(*                                                                         *)
(* A Python str is a sequence of one-character strings, so that sorting,   *)
(* case folding, the accession pattern and the f-string that builds a      *)
(* sample id are computed character by character as the code does.         *)
(***************************************************************************)
EXTENDS Integers, Sequences, FiniteSets, TLC

VARIABLES
    pc,              \* position of the constructor
    intersect_genes, \* self.intersect_genes
    dir_queue,       \* entries of sorted(os.listdir(subset_dir)) not yet visited
    tissue,          \* the tissue directory being walked
    file_queue,      \* entries of sorted(os.listdir(tissue_dir)) not yet visited
    disk,            \* what the walk has found on disk so far (entries and files read)
    per_file_dfs,    \* per_file_dfs of _load_all
    sample_infos,    \* sample_infos of _load_all
    _counts,         \* self._counts
    _metadata,       \* self._metadata
    error,           \* the exception that ended the constructor, or "none"
    dataset,         \* the ExpressionDataset built on the loaded tables
    input,           \* argument of the function under test (function specifications)
    output           \* its result

vars == <<pc, intersect_genes, dir_queue, tissue, file_queue, disk, per_file_dfs,
          sample_infos, _counts, _metadata, error, dataset, input, output>>

(***************************************************************************)
(* Bounds of the model.                                                    *)
(***************************************************************************)
MaxTokens == 4   \* a file name of the accession specification has at most this many tokens
MaxRows == 3     \* a file of the parser specification has at most this many data rows
MaxFiles == 2    \* the walk of the loader specification meets at most this many .txt files

(***************************************************************************)
(* Characters and strings.                                                 *)
(***************************************************************************)

\* The characters of the model in ascending code point order.
Ascii ==
    << ".", "/", "0", "1", "2", "3", "4", "5", "6", "7", "8", "9",
       "A", "B", "C", "D", "E", "F", "G", "H", "I", "J", "K", "L", "M",
       "N", "O", "P", "Q", "R", "S", "T", "U", "V", "W", "X", "Y", "Z",
       "_",
       "a", "b", "c", "d", "e", "f", "g", "h", "i", "j", "k", "l", "m",
       "n", "o", "p", "q", "r", "s", "t", "u", "v", "w", "x", "y", "z",
       "|" >>

Chars == { Ascii[i] : i \in 1..Len(Ascii) }

\* Rank of a character in code point order.
ord == [c \in Chars |-> CHOOSE i \in 1..Len(Ascii) : Ascii[i] = c]

IsUpper(c) == ord[c] >= ord["A"] /\ ord[c] <= ord["Z"]
IsLower(c) == ord[c] >= ord["a"] /\ ord[c] <= ord["z"]
IsDigit(c) == ord[c] >= ord["0"] /\ ord[c] <= ord["9"]

lower_char(c) == IF IsUpper(c) THEN Ascii[ord[c] - ord["A"] + ord["a"]] ELSE c
upper_char(c) == IF IsLower(c) THEN Ascii[ord[c] - ord["a"] + ord["A"]] ELSE c

\* str.lower() and str.upper()
lower(s) == [i \in 1..Len(s) |-> lower_char(s[i])]
upper(s) == [i \in 1..Len(s) |-> upper_char(s[i])]

\* a < b on str: lexicographic by code point, a proper prefix first
RECURSIVE StrLess(_, _)
StrLess(a, b) ==
    IF b = <<>> THEN FALSE
    ELSE IF a = <<>> THEN TRUE
    ELSE IF a[1] # b[1] THEN ord[a[1]] < ord[b[1]]
    ELSE StrLess(Tail(a), Tail(b))

\* s.endswith(suffix)
endswith(s, suffix) ==
    /\ Len(s) >= Len(suffix)
    /\ SubSeq(s, Len(s) - Len(suffix) + 1, Len(s)) = suffix

\* sub in s
contains(s, sub) ==
    \E i \in 1..(Len(s) - Len(sub) + 1) : SubSeq(s, i, i + Len(sub) - 1) = sub

\* os.path.basename(path): what follows the last separator
basename(path) ==
    LET seps == { i \in 1..Len(path) : path[i] = "/" }
        last == IF seps = {} THEN 0 ELSE CHOOSE i \in seps : \A j \in seps : j <= i
    IN  SubSeq(path, last + 1, Len(path))

\* os.path.join(a, b)
path_join(a, b) == a \o <<"/">> \o b

\* Insertion of x into an ascending list, after the elements equal to it.
RECURSIVE Insert(_, _)
Insert(x, s) ==
    IF s = <<>> THEN <<x>>
    ELSE IF StrLess(x, s[1]) THEN <<x>> \o s
    ELSE <<s[1]>> \o Insert(x, Tail(s))

\* sorted(list of str)
RECURSIVE sorted(_)
sorted(s) ==
    IF s = <<>> THEN <<>>
    ELSE Insert(s[Len(s)], sorted(SubSeq(s, 1, Len(s) - 1)))

\* The elements of a list, as a set.
Range(s) == { s[i] : i \in 1..Len(s) }

\* The lists that hold each element of a finite set once, in any order.
RECURSIVE Orderings(_)
Orderings(S) ==
    IF S = {} THEN { <<>> }
    ELSE UNION { { <<x>> \o t : t \in Orderings(S \ {x}) } : x \in S }

\* A list without the later repetitions of its elements.
RECURSIVE Unique(_)
Unique(s) ==
    IF s = <<>> THEN <<>>
    ELSE LET front == Unique(SubSeq(s, 1, Len(s) - 1))
         IN  IF s[Len(s)] \in Range(front) THEN front ELSE Append(front, s[Len(s)])

\* The concatenation of a list of lists.
RECURSIVE Flatten(_)
Flatten(ss) == IF ss = <<>> THEN <<>> ELSE ss[1] \o Flatten(Tail(ss))

(***************************************************************************)
(* Accession and cultivar parsing.                                         *)
(***************************************************************************)

UNKNOWN == <<"U", "N", "K", "N", "O", "W", "N">>

\* Variant: the pattern takes a single digit (GSE\d).
DigitsEnd_one(s, j) == j

\* GSE_REGEX matched at position i of s: the letters G, S, E in any case, then the
\* longest run of digits, which must not be empty. The end of the match, or 0.
RECURSIVE DigitsEnd(_, _)
DigitsEnd(s, j) ==
    IF j + 1 <= Len(s) /\ IsDigit(s[j + 1]) THEN DigitsEnd(s, j + 1) ELSE j

MatchAt(s, i) ==
    IF /\ i + 3 <= Len(s)
       /\ lower(SubSeq(s, i, i + 2)) = <<"g", "s", "e">>
       /\ IsDigit(s[i + 3])
    THEN DigitsEnd(s, i + 3)
    ELSE 0

\* GSE_REGEX.search(s) from position i on: the first position where the pattern
\* matches, tried left to right, as <<start, end>>; <<>> when there is none.
RECURSIVE Search(_, _)
Search(s, i) ==
    IF i > Len(s) THEN <<>>
    ELSE IF MatchAt(s, i) # 0 THEN <<i, MatchAt(s, i)>>
    ELSE Search(s, i + 1)

_parse_gse_from_filename(fname) ==
    LET m == Search(fname, 1)
    IN  IF m # <<>> THEN upper(SubSeq(fname, m[1], m[2])) ELSE UNKNOWN

\* Optional[str] None for a cultivar
NoCultivar == <<>>
mueller == <<"m", "u", "e", "l", "l", "e", "r">>
regent == <<"r", "e", "g", "e", "n", "t">>

_parse_cultivar_from_filename(fname) ==
    IF contains(lower(fname), mueller) THEN mueller
    ELSE IF contains(lower(fname), regent) THEN regent
    ELSE NoCultivar

(***************************************************************************)
(* Tables.  A DataFrame is a record of its row index, its column index and *)
(* its cells by row: values[r][c].  NaN is the cell pandas leaves without  *)
(* a value.  A file on disk is its header line and its data rows, each row *)
(* the gene id followed by one count per sample column.                    *)
(***************************************************************************)

\* self._counts / self._metadata before they are assigned
None == [none |-> TRUE]

\* the missing cell of an outer join
NaN == -1

\* The positions of key in a row or column index, ascending.
Positions(idx, key) == { p \in 1..Len(idx) : idx[p] = key }

\* The elements of a set of positions, ascending, as a list.
RECURSIVE Ascending(_)
Ascending(P) ==
    IF P = {} THEN <<>>
    ELSE LET least == CHOOSE p \in P : \A q \in P : p <= q
         IN  <<least>> \o Ascending(P \ {least})

\* Index.is_unique
is_unique(idx) == \A p, q \in 1..Len(idx) : idx[p] = idx[q] => p = q

\* Variant: the first row of a group wins (groupby(...).first()).
SumRows_first(values, ps, c) == values[ps[1]][c]

\* The sum of column c over the rows at the given positions, in row order.
RECURSIVE SumRows(_, _, _)
SumRows(values, ps, c) ==
    IF ps = <<>> THEN 0 ELSE values[ps[1]][c] + SumRows(values, Tail(ps), c)

\* df.groupby(df.index).sum(): one row per key, keys ascending, cells summed
groupby_sum(df) ==
    LET keys == sorted(Unique(df.index))
    IN  [ index   |-> keys,
          columns |-> df.columns,
          values  |-> [k \in 1..Len(keys) |->
                         [c \in 1..Len(df.columns) |->
                            SumRows(df.values, Ascending(Positions(df.index, keys[k])), c)]] ]

\* pd.read_csv(fpath, sep="\t", header=0) followed by set_index on the first column
\* (after its rename to "Gene"): the first cell of each row becomes the row key.
read_indexed(raw) ==
    [ index   |-> [r \in 1..Len(raw.rows) |-> raw.rows[r][1]],
      columns |-> Tail(raw.header),
      values  |-> [r \in 1..Len(raw.rows) |-> Tail(raw.rows[r])] ]

\* the duplicate-gene step of _load_single_file
dedup(df) == IF ~is_unique(df.index) THEN groupby_sum(df) ELSE df

\* f"{tissue}|{gse}|{original_name}"
make_sample_id(tis, gse, original_name) == tis \o <<"|">> \o gse \o <<"|">> \o original_name

\* Variant: the column check is left out.
no_sample_columns_never(raw) == FALSE

\* df.shape[1] < 2 on the table as read, the gene column included
no_sample_columns(raw) == Len(raw.header) < 2

\* _load_single_file(fpath, tissue, condition), raw being the content of fpath
_load_single_file(fpath, tis, condition, raw) ==
    IF raw.header = <<>> THEN [raised |-> "EmptyDataError"]
    ELSE IF no_sample_columns(raw) THEN [raised |-> "ValueError: File has no sample columns"]
    ELSE
      LET df       == dedup(read_indexed(raw))
          gse      == _parse_gse_from_filename(basename(fpath))
          cultivar == _parse_cultivar_from_filename(basename(fpath))
          infos    == [c \in 1..Len(df.columns) |->
                         [ sample_id     |-> make_sample_id(tis, gse, df.columns[c]),
                           original_name |-> df.columns[c],
                           tissue        |-> tis,
                           condition     |-> condition,
                           gse_accession |-> gse,
                           cultivar      |-> cultivar,
                           file_path     |-> fpath ]]
      IN  [ raised |-> "none",
            df     |-> [df EXCEPT !.columns = [c \in 1..Len(df.columns) |-> infos[c].sample_id]],
            infos  |-> infos ]

(***************************************************************************)
(* Specification of _parse_gse_from_filename alone: a file name made of a  *)
(* few tokens, then the call.                                              *)
(***************************************************************************)

Tokens ==
    { <<"G", "S", "E">>, <<"g", "s", "e">>, <<"G", "s">>, <<"e">>,
      <<"1">>, <<"2", "0">>, <<"_">>, <<".", "t", "x", "t">> }

\* The names made of at most n tokens.
RECURSIVE Names(_)
Names(n) ==
    IF n = 0 THEN { <<>> }
    ELSE Names(n - 1) \cup { t \o s : t \in Tokens, s \in Names(n - 1) }

\* The values of the loader's variables while a single function is exercised.
LoaderIdle ==
    /\ intersect_genes = TRUE
    /\ dir_queue = <<>>
    /\ tissue = <<>>
    /\ file_queue = <<>>
    /\ disk = [isdir |-> FALSE, entries |-> {}, listings |-> {}, files |-> <<>>]
    /\ per_file_dfs = <<>>
    /\ sample_infos = <<>>
    /\ _counts = None
    /\ _metadata = None
    /\ error = "none"
    /\ dataset = None

LoaderUnchanged ==
    UNCHANGED <<intersect_genes, dir_queue, tissue, file_queue, disk, per_file_dfs,
                sample_infos, _counts, _metadata, error, dataset>>

InitGse ==
    /\ pc = "call"
    /\ input \in Names(MaxTokens)
    /\ output = <<>>
    /\ LoaderIdle

ParseGse ==
    /\ pc = "call"
    /\ output' = _parse_gse_from_filename(input)
    /\ pc' = "returned"
    /\ UNCHANGED input
    /\ LoaderUnchanged

NextGse == ParseGse

SpecGse == InitGse /\ [][NextGse]_vars

(***************************************************************************)
(* Specification of _load_single_file alone: a file of a few rows, then    *)
(* the call.                                                               *)
(***************************************************************************)

g1 == <<"g", "1">>
g2 == <<"g", "2">>
Genes == { g1, g2 }
S1 == <<"S", "1">>
S2 == <<"S", "2">>
Counts == { 1, 2 }

\* Header lines: none (an empty file), a gene column alone, and one or two sample
\* columns after a gene column of either name. read_csv keeps column names distinct.
header_none == <<<<"I", "D">>>>
header_one == <<<<"G", "e", "n", "e">>, S1>>
header_two == <<<<"I", "D">>, S2, S1>>
Headers == { <<>>, header_none, header_one, header_two }

\* The data rows under a header of n columns: a gene id, then n - 1 counts.
RowsOf(n) ==
    IF n = 0 THEN { <<>> }
    ELSE { <<g>> \o v : g \in Genes, v \in [1..(n - 1) -> Counts] }

\* The lists of at most n elements of S.
RECURSIVE ListsUpTo(_, _)
ListsUpTo(S, n) ==
    IF n = 0 THEN { <<>> }
    ELSE ListsUpTo(S, n - 1) \cup
         { Append(l, x) : l \in { m \in ListsUpTo(S, n - 1) : Len(m) = n - 1 }, x \in S }

ParserFiles ==
    UNION { { [header |-> h, rows |-> rs] :
                rs \in IF h = <<>> THEN { <<>> } ELSE ListsUpTo(RowsOf(Len(h)), MaxRows) } :
            h \in Headers }

leaf == <<"l", "e", "a", "f">>
berry == <<"b", "e", "r", "r", "y">>
control == <<"c", "o", "n", "t", "r", "o", "l">>

name_regent == <<"G", "S", "E", "2", "_", "r", "e", "g", "e", "n", "t", ".", "t", "x", "t">>
name_mueller == <<"G", "S", "E", "1", "_", "m", "u", "e", "l", "l", "e", "r", ".", "t", "x", "t">>
name_lower == <<"g", "s", "e", "1", "_", "a", ".", "T", "X", "T">>
name_md == <<"r", "e", "a", "d", "m", "e", ".", "m", "d">>

InitParse ==
    /\ pc = "call"
    /\ input \in [ fpath : { path_join(leaf, name_lower), path_join(leaf, name_regent) },
                   tissue : { leaf },
                   raw : ParserFiles ]
    /\ output = <<>>
    /\ LoaderIdle

ParseFile ==
    /\ pc = "call"
    /\ output' = _load_single_file(input.fpath, input.tissue, control, input.raw)
    /\ pc' = "returned"
    /\ UNCHANGED input
    /\ LoaderUnchanged

NextParse == ParseFile

SpecParse == InitParse /\ [][NextParse]_vars

(***************************************************************************)
(* The loader: VitisExpressionData.__init__ and _load_all.                 *)
(***************************************************************************)

\* set(df.index)
index_set(df) == Range(df.index)

\* common_genes after the loop of _load_all: the genes of the first table,
\* intersected with those of every later table
RECURSIVE common_genes(_)
common_genes(dfs) ==
    IF Len(dfs) = 1 THEN index_set(dfs[1])
    ELSE common_genes(SubSeq(dfs, 1, Len(dfs) - 1)) \cap index_set(dfs[Len(dfs)])

\* Variant: the common genes are listed in descending order.
sorted_set_desc(S) ==
    LET up == sorted(CHOOSE l \in Orderings(S) : TRUE)
    IN  [i \in 1..Len(up) |-> up[Len(up) + 1 - i]]

\* sorted(common_genes) on a set: whatever order the set is iterated in, sorted
sorted_set(S) == sorted(CHOOSE l \in Orderings(S) : TRUE)

\* The positions .loc[keys] selects: for each key in turn, every position that
\* carries it, ascending.
RECURSIVE loc_positions(_, _)
loc_positions(idx, keys) ==
    IF keys = <<>> THEN <<>>
    ELSE Ascending(Positions(idx, keys[1])) \o loc_positions(idx, Tail(keys))

\* .loc[keys] raises KeyError when a key is not in the index
loc_missing(idx, keys) == \E k \in 1..Len(keys) : Positions(idx, keys[k]) = {}

\* df.loc[keys] on the rows of a counts table
loc_rows(df, keys) ==
    LET ps == loc_positions(df.index, keys)
    IN  [ index   |-> [i \in 1..Len(ps) |-> df.index[ps[i]]],
          columns |-> df.columns,
          values  |-> [i \in 1..Len(ps) |-> df.values[ps[i]]] ]

\* the intersection step of _load_all: every table restricted to the sorted common genes
restrict(dfs) ==
    LET common == sorted_set(common_genes(dfs))
    IN  [k \in 1..Len(dfs) |-> loc_rows(dfs[k], common)]

\* Variant: a missing cell is filled with 0 (fillna(0)).
cell_or_zero(df, g, c) ==
    IF Positions(df.index, g) = {} THEN 0
    ELSE df.values[CHOOSE p \in Positions(df.index, g) : TRUE][c]

\* The cell of gene g in column c of a table, NaN when the table has no row g.
cell_or_nan(df, g, c) ==
    IF Positions(df.index, g) = {} THEN NaN
    ELSE df.values[CHOOSE p \in Positions(df.index, g) : TRUE][c]

\* Variant: the rows are the keys every table has (join="inner").
concat_inner(dfs) ==
    LET idx  == SelectSeq(Unique(Flatten([k \in 1..Len(dfs) |-> dfs[k].index])),
                          LAMBDA g : \A k \in 1..Len(dfs) : Positions(dfs[k].index, g) # {})
        from == Flatten([k \in 1..Len(dfs) |->
                           [c \in 1..Len(dfs[k].columns) |-> <<k, c>>]])
    IN  [ index   |-> idx,
          columns |-> Flatten([k \in 1..Len(dfs) |-> dfs[k].columns]),
          values  |-> [r \in 1..Len(idx) |->
                         [j \in 1..Len(from) |->
                            cell_or_nan(dfs[from[j][1]], idx[r], from[j][2])]] ]

\* pd.concat(dfs, axis=1): the columns side by side, the rows the union of the
\* row keys in order of first appearance (the common index when all are equal)
concat(dfs) ==
    LET idx  == Unique(Flatten([k \in 1..Len(dfs) |-> dfs[k].index]))
        from == Flatten([k \in 1..Len(dfs) |->
                           [c \in 1..Len(dfs[k].columns) |-> <<k, c>>]])
    IN  [ index   |-> idx,
          columns |-> Flatten([k \in 1..Len(dfs) |-> dfs[k].columns]),
          values  |-> [r \in 1..Len(idx) |->
                         [j \in 1..Len(from) |->
                            cell_or_nan(dfs[from[j][1]], idx[r], from[j][2])]] ]

\* pd.DataFrame([s.__dict__ for s in sample_infos]).set_index("sample_id")
meta_frame(infos) ==
    [ index |-> [i \in 1..Len(infos) |-> infos[i].sample_id],
      rows  |-> infos ]

\* meta.loc[keys] on the rows of a metadata table
loc_meta(meta, keys) ==
    LET ps == loc_positions(meta.index, keys)
    IN  [ index |-> [i \in 1..Len(ps) |-> meta.index[ps[i]]],
          rows  |-> [i \in 1..Len(ps) |-> meta.rows[ps[i]]] ]

\* the metadata table of _load_all, rows taken in the order of the counts columns
aligned_meta(infos, counts) == loc_meta(meta_frame(infos), counts.columns)

data_root == <<"/", "d">>
vitis_vinifera ==
    <<"v", "i", "t", "i", "s", "_", "v", "i", "n", "i", "f", "e", "r", "a">>
subset == control
subset_dir == path_join(path_join(data_root, vitis_vinifera), subset)

\* What os.listdir(subset_dir) may hold: tissue directories and a plain file.
name_notes == <<"n", "o", "t", "e", "s", ".", "t", "x", "t">>
SubsetEntries ==
    { [name |-> berry, isdir |-> TRUE], [name |-> leaf, isdir |-> TRUE],
      [name |-> name_notes, isdir |-> FALSE] }

\* What os.listdir(tissue_dir) may hold.
FileNames == { name_regent, name_mueller, name_lower, name_md }

\* fname.lower().endswith(".txt")
is_txt(fname) == endswith(lower(fname), <<".", "t", "x", "t">>)

\* The files a walk may read. Row r of a file holds 2(r-1)+c in sample column c.
CorpusRows(h, gs) ==
    [r \in 1..Len(gs) |-> <<gs[r]>> \o [c \in 1..(Len(h) - 1) |-> 2 * (r - 1) + c]]
CorpusFiles ==
    { [header |-> header_none, rows |-> CorpusRows(header_none, <<g1>>)],
      [header |-> header_one, rows |-> CorpusRows(header_one, <<g1>>)],
      [header |-> header_one, rows |-> CorpusRows(header_one, <<g2, g1>>)],
      [header |-> header_one, rows |-> CorpusRows(header_one, <<>>)],
      [header |-> header_two, rows |-> CorpusRows(header_two, <<g1, g1>>)],
      [header |-> header_two, rows |-> CorpusRows(header_two, <<g2>>)] }

\* os.path.isdir(tissue_dir) for an entry of the subset directory
isdir(name) == \E e \in disk.entries : e.name = name /\ e.isdir

\* Variant: a directory is walked in the order os.listdir gives.
walk_order_listed(listing) == listing

\* the order in which a directory is walked: sorted(os.listdir(...))
walk_order(listing) == sorted(listing)

\* The .txt files the walk has met so far, as <<tissue, name>>.
Discovered ==
    UNION { { <<l.tissue, f>> : f \in { n \in l.names : is_txt(n) } } : l \in disk.listings }

Init ==
    /\ pc = "start"
    /\ intersect_genes \in BOOLEAN
    /\ dir_queue = <<>>
    /\ tissue = <<>>
    /\ file_queue = <<>>
    /\ disk = [isdir |-> FALSE, entries |-> {}, listings |-> {}, files |-> <<>>]
    /\ per_file_dfs = <<>>
    /\ sample_infos = <<>>
    /\ _counts = None
    /\ _metadata = None
    /\ error = "none"
    /\ dataset = None
    /\ input = <<>>
    /\ output = <<>>

\* The constructor ends with an exception: nothing is assigned.
Raise(exc) ==
    /\ error' = exc
    /\ pc' = "failed"
    /\ UNCHANGED <<_counts, _metadata>>

\* _load_all up to the listing of the subset directory
EnterSubset ==
    /\ pc = "start"
    /\ \/ /\ disk' = [disk EXCEPT !.isdir = FALSE]
          /\ Raise("FileNotFoundError: Subset dir not found")
          /\ UNCHANGED dir_queue
       \/ \E entries \in SUBSET SubsetEntries :
          \E listing \in Orderings({ e.name : e \in entries }) :
             /\ disk' = [disk EXCEPT !.isdir = TRUE, !.entries = entries]
             /\ dir_queue' = walk_order(listing)
             /\ pc' = "walk"
             /\ UNCHANGED <<error, _counts, _metadata>>
    /\ UNCHANGED <<intersect_genes, tissue, file_queue, per_file_dfs, sample_infos,
                   dataset, input, output>>

\* outer loop, an entry that is no directory: continue
SkipEntry ==
    /\ pc = "walk"
    /\ file_queue = <<>>
    /\ dir_queue # <<>>
    /\ ~isdir(Head(dir_queue))
    /\ dir_queue' = Tail(dir_queue)
    /\ UNCHANGED <<pc, intersect_genes, tissue, file_queue, disk, per_file_dfs,
                   sample_infos, _counts, _metadata, error, dataset, input, output>>

\* outer loop, a tissue directory: its listing, sorted
EnterTissue ==
    /\ pc = "walk"
    /\ file_queue = <<>>
    /\ dir_queue # <<>>
    /\ isdir(Head(dir_queue))
    /\ \E names \in SUBSET FileNames :
       \E listing \in Orderings(names) :
          /\ Cardinality(Discovered) + Cardinality({ n \in names : is_txt(n) }) <= MaxFiles
          /\ disk' = [disk EXCEPT !.listings =
                        @ \cup { [tissue |-> Head(dir_queue), names |-> names] }]
          /\ file_queue' = walk_order(listing)
    /\ tissue' = Head(dir_queue)
    /\ dir_queue' = Tail(dir_queue)
    /\ UNCHANGED <<pc, intersect_genes, per_file_dfs, sample_infos, _counts, _metadata,
                   error, dataset, input, output>>

\* inner loop, a name that does not end in .txt: continue
SkipFile ==
    /\ pc = "walk"
    /\ file_queue # <<>>
    /\ ~is_txt(Head(file_queue))
    /\ file_queue' = Tail(file_queue)
    /\ UNCHANGED <<pc, intersect_genes, dir_queue, tissue, disk, per_file_dfs,
                   sample_infos, _counts, _metadata, error, dataset, input, output>>

\* inner loop, a .txt file: parse it and collect its table and its sample records
LoadFile ==
    /\ pc = "walk"
    /\ file_queue # <<>>
    /\ is_txt(Head(file_queue))
    /\ \E raw \in CorpusFiles :
          LET fname == Head(file_queue)
              fpath == path_join(path_join(subset_dir, tissue), fname)
              res   == _load_single_file(fpath, tissue, subset, raw)
          IN  /\ disk' = [disk EXCEPT !.files =
                            Append(@, [tissue |-> tissue, fname |-> fname, raw |-> raw])]
              /\ IF res.raised # "none"
                 THEN /\ Raise(res.raised)
                      /\ UNCHANGED <<per_file_dfs, sample_infos>>
                 ELSE /\ per_file_dfs' = Append(per_file_dfs, res.df)
                      /\ sample_infos' = sample_infos \o res.infos
                      /\ UNCHANGED <<pc, error, _counts, _metadata>>
    /\ file_queue' = Tail(file_queue)
    /\ UNCHANGED <<intersect_genes, dir_queue, tissue, dataset, input, output>>

\* _load_all after the walk: the checks, the intersection, the two tables
Assemble ==
    /\ pc = "walk"
    /\ file_queue = <<>>
    /\ dir_queue = <<>>
    /\ IF per_file_dfs = <<>>
       THEN Raise("RuntimeError: No expression txt files")
       ELSE IF intersect_genes /\ common_genes(per_file_dfs) = {}
       THEN Raise("RuntimeError: No intersecting genes across datasets.")
       ELSE LET dfs    == IF intersect_genes THEN restrict(per_file_dfs) ELSE per_file_dfs
                counts == concat(dfs)
            IN  IF loc_missing(meta_frame(sample_infos).index, counts.columns)
                THEN Raise("KeyError")
                ELSE /\ _counts' = counts
                     /\ _metadata' = aligned_meta(sample_infos, counts)
                     /\ pc' = "loaded"
                     /\ UNCHANGED error
    /\ UNCHANGED <<intersect_genes, dir_queue, tissue, file_queue, disk, per_file_dfs,
                   sample_infos, dataset, input, output>>

(***************************************************************************)
(* ExpressionDataset.                                                      *)
(***************************************************************************)

LabelColumns == { "tissue", "gse_accession", "cultivar" }

\* counts_df.T.values: one row per sample, one cell per gene
transpose(df) ==
    [c \in 1..Len(df.columns) |-> [r \in 1..Len(df.index) |-> df.values[r][c]]]

\* A list without its null entries.
present(labels) == SelectSeq(labels, LAMBDA l : l # NoCultivar)

\* Variant: the categories in the order they are first seen (pd.unique).
categories_first_seen(labels) == Unique(present(labels))

\* labels.cat.categories of astype("category"): the distinct values that are
\* not null, ascending
categories(labels) == sorted(Unique(present(labels)))

\* labels.cat.codes: the position of each label among the categories, counted
\* from 0, and -1 for a null
codes(labels) ==
    LET cats == categories(labels)
    IN  [i \in 1..Len(labels) |->
           IF labels[i] = NoCultivar THEN -1
           ELSE (CHOOSE k \in 1..Len(cats) : cats[k] = labels[i]) - 1]

\* ExpressionDataset.__init__(counts_df, metadata_df, label_col)
ExpressionDataset(counts_df, metadata_df, label_col) ==
    LET meta   == loc_meta(metadata_df, counts_df.columns)
        labels == [i \in 1..Len(meta.rows) |-> meta.rows[i][label_col]]
    IN  [ X                |-> transpose(counts_df),
          sample_ids       |-> counts_df.columns,
          metadata         |-> meta,
          label_col        |-> label_col,
          label_categories |-> categories(labels),
          y                |-> codes(labels) ]

IndexError == <<"IndexError">>

\* label_to_name(y_idx): a list subscript, a negative one counting from the end
label_to_name(ds, y_idx) ==
    LET n == Len(ds.label_categories)
    IN  IF y_idx >= 0 /\ y_idx < n THEN ds.label_categories[y_idx + 1]
        ELSE IF y_idx < 0 /\ y_idx >= -n THEN ds.label_categories[n + y_idx + 1]
        ELSE IndexError

\* get_sample_metadata(idx): the rows of the dataset's metadata under sample_ids[idx]
get_sample_metadata(ds, idx) ==
    loc_meta(ds.metadata, <<ds.sample_ids[idx + 1]>>).rows

\* A dataset is built on the tables of a loaded corpus.
MakeDataset ==
    /\ pc = "loaded"
    /\ \E label_col \in LabelColumns :
          dataset' = ExpressionDataset(_counts, _metadata, label_col)
    /\ pc' = "dataset"
    /\ UNCHANGED <<intersect_genes, dir_queue, tissue, file_queue, disk, per_file_dfs,
                   sample_infos, _counts, _metadata, error, input, output>>

Next ==
    \/ EnterSubset
    \/ SkipEntry
    \/ EnterTissue
    \/ SkipFile
    \/ LoadFile
    \/ Assemble
    \/ MakeDataset

Spec == Init /\ [][Next]_vars

(***************************************************************************)
(* What the walk found on disk, read back independently of the walk.       *)
(***************************************************************************)

Loaded == pc \in { "loaded", "dataset" }

\* The gene ids a file carries.
RawGenes(raw) == { raw.rows[r][1] : r \in 1..Len(raw.rows) }

\* The sum of sample column c of a file over the rows at a set of positions.
RECURSIVE RawSum(_, _, _)
RawSum(raw, P, c) ==
    IF P = {} THEN 0
    ELSE LET p == CHOOSE q \in P : TRUE
         IN  raw.rows[p][c + 1] + RawSum(raw, P \ {p}, c)

\* The sum of sample column c of a file over its rows for gene g.
RawTotal(raw, g, c) == RawSum(raw, { r \in 1..Len(raw.rows) : raw.rows[r][1] = g }, c)

\* The number of sample columns of a file.
SampleColumns(raw) == Len(raw.header) - 1

FilesRead == { disk.files[k] : k \in 1..Len(disk.files) }

\* The genes every file read carries.
GenesInAll == { g \in Genes : \A f \in FilesRead : g \in RawGenes(f.raw) }

\* The genes some file read carries.
GenesInSome == UNION { RawGenes(f.raw) : f \in FilesRead }

\* A name whose last four characters are .txt in any letter case.
TxtName(f) ==
    /\ Len(f) >= 4
    /\ f[Len(f) - 3] = "."
    /\ f[Len(f) - 2] \in { "t", "T" }
    /\ f[Len(f) - 1] \in { "x", "X" }
    /\ f[Len(f)] \in { "t", "T" }

\* The tissue directories of the tree, and its .txt files as <<tissue, name>>.
TissueDirs == { e.name : e \in { x \in disk.entries : x.isdir } }
FileKeys ==
    UNION { { <<l.tissue, f>> : f \in { n \in l.names : TxtName(n) } } :
            l \in { m \in disk.listings : m.tissue \in TissueDirs } }

\* Tissue name first, file name second, both ascending.
Before(a, b) == StrLess(a[1], b[1]) \/ (a[1] = b[1] /\ StrLess(a[2], b[2]))

OrderedKeys ==
    CHOOSE l \in Orderings(FileKeys) :
        \A i, j \in 1..Len(l) : i < j => Before(l[i], l[j])

\* The content of the file under a key.
RawAt(key) == (CHOOSE f \in FilesRead : f.tissue = key[1] /\ f.fname = key[2]).raw

\* The sample ids of the file under a key, in the order of its header.
IdsOf(key) ==
    [c \in 1..SampleColumns(RawAt(key)) |->
       make_sample_id(key[1], _parse_gse_from_filename(key[2]), RawAt(key).header[c + 1])]

ExpectedColumns == Flatten([i \in 1..Len(OrderedKeys) |-> IdsOf(OrderedKeys[i])])

\* The number of columns the files read before the k-th contribute.
RECURSIVE Offset(_)
Offset(k) == IF k <= 1 THEN 0 ELSE Offset(k - 1) + SampleColumns(disk.files[k - 1].raw)

HasNaN == \E r \in 1..Len(_counts.index), c \in 1..Len(_counts.columns) :
             _counts.values[r][c] = NaN

(***************************************************************************)
(* Claims about the loader (specification Spec).                           *)
(***************************************************************************)

\* C1: after a successful load the index of metadata equals the columns of counts:
\* same length, same sample ids, same order.
C1_MetadataAligned ==
    Loaded => /\ Len(_metadata.index) = Len(_counts.columns)
              /\ _metadata.index = _counts.columns

\* C2: after a successful load no two sample records share a sample_id and the
\* column keys of counts are pairwise distinct.
C2_SampleIdsUnique ==
    Loaded =>
      /\ \A i, j \in 1..Len(sample_infos) :
            sample_infos[i].sample_id = sample_infos[j].sample_id => i = j
      /\ \A i, j \in 1..Len(_counts.columns) :
            _counts.columns[i] = _counts.columns[j] => i = j

\* C3: with intersect_genes, the row keys of a loaded counts table are the genes
\* common to all files, ascending and without repetition, and the load ends with
\* the no-intersecting-genes error only when no gene is common to all files; a
\* walk that read its files without error ends with that error when none is.
C3_IntersectionSorted ==
    /\ (Loaded /\ intersect_genes) =>
          /\ Range(_counts.index) = GenesInAll
          /\ GenesInAll # {}
          /\ \A p, q \in 1..Len(_counts.index) :
                p < q => StrLess(_counts.index[p], _counts.index[q])
    /\ error = "RuntimeError: No intersecting genes across datasets." =>
          intersect_genes /\ FilesRead # {} /\ GenesInAll = {}
    /\ (pc = "failed" /\ intersect_genes /\ disk.isdir /\ FilesRead # {}
          /\ \A f \in FilesRead : Len(f.raw.header) >= 2) =>
          error = "RuntimeError: No intersecting genes across datasets."

C3_Witness ==
    /\ Loaded
    /\ intersect_genes
    /\ Len(disk.files) >= 2
    /\ \E f \in FilesRead : RawGenes(f.raw) # GenesInAll
    /\ \E f \in FilesRead : Len(f.raw.rows) = 2 /\ f.raw.rows[1][1] = f.raw.rows[2][1]
    /\ _counts.index # <<>>

\* A condition the code treats as fatal has occurred.
FatalCondition ==
    /\ pc # "start"
    /\ \/ ~disk.isdir
       \/ \E f \in FilesRead : Len(f.raw.header) < 2
       \/ pc # "walk" /\ FileKeys = {}
       \/ pc # "walk" /\ intersect_genes /\ GenesInAll = {}

\* C4: a fatal condition (subset directory missing, a file without sample columns,
\* no file at all, no common gene in intersection mode) fails the constructor;
\* counts and metadata are unset together or set together, and they are set only
\* when every .txt file of the tree has been parsed.
C4_AllOrNothing ==
    /\ (_counts = None) <=> (_metadata = None)
    /\ (_counts # None) <=> Loaded
    /\ (error # "none") <=> (pc = "failed")
    /\ FatalCondition => (pc = "failed" /\ _counts = None /\ _metadata = None)
    /\ Loaded => /\ Len(per_file_dfs) = Cardinality(FileKeys)
                 /\ \A key \in FileKeys :
                       Cardinality({ k \in 1..Len(disk.files) :
                                       /\ disk.files[k].tissue = key[1]
                                       /\ disk.files[k].fname = key[2] }) = 1

C4_Witness ==
    /\ pc = "failed"
    /\ error = "ValueError: File has no sample columns"
    /\ Len(per_file_dfs) >= 1
    /\ _counts = None
    /\ _metadata = None

\* C6 as stated: after a successful load, in either mode, no cell of counts is
\* missing.
C6_NoMissingCell == Loaded => ~HasNaN

\* C6 as amended: with intersect_genes no cell of a loaded counts table is missing;
\* without it the load succeeds all the same, and a cell is missing exactly when
\* some file read lacks a gene that another file carries.
C6_MissingOnlyInUnionMode ==
    Loaded =>
      /\ intersect_genes => ~HasNaN
      /\ ~intersect_genes =>
            (HasNaN <=> \E f \in FilesRead : RawGenes(f.raw) # GenesInSome)

C6_Witness ==
    /\ Loaded
    /\ ~intersect_genes
    /\ HasNaN
    /\ \E f \in FilesRead : RawGenes(f.raw) # GenesInSome

\* C7: without intersect_genes, the row keys of a loaded counts table are the
\* genes of all files, each once, and the cell of gene g in a column that comes
\* from file f is f's value for g (its rows for g summed), or missing when f has
\* no row for g.
C7_OuterJoin ==
    (Loaded /\ ~intersect_genes) =>
      /\ Range(_counts.index) = GenesInSome
      /\ Cardinality(Range(_counts.index)) = Len(_counts.index)
      /\ Len(_counts.columns) = Offset(Len(disk.files) + 1)
      /\ \A r \in 1..Len(_counts.index), k \in 1..Len(disk.files) :
            \A c \in 1..SampleColumns(disk.files[k].raw) :
               _counts.values[r][Offset(k) + c] =
                  IF _counts.index[r] \in RawGenes(disk.files[k].raw)
                  THEN RawTotal(disk.files[k].raw, _counts.index[r], c)
                  ELSE NaN

C7_Witness ==
    /\ Loaded
    /\ ~intersect_genes
    /\ Len(disk.files) = 2
    /\ RawGenes(disk.files[1].raw) = { g1 }
    /\ RawGenes(disk.files[2].raw) = { g1, g2 }
    /\ Len(disk.files[1].raw.rows) = 2
    /\ HasNaN

\* C8: the columns of a loaded counts table are the sample columns of the .txt
\* files of the tissue directories, tissues ascending, files ascending within a
\* tissue, columns in header order; every such file is read once, and nothing else
\* is read.
C8_ColumnOrder ==
    Loaded =>
      /\ Len(disk.files) = Cardinality(FileKeys)
      /\ \A f \in FilesRead : <<f.tissue, f.fname>> \in FileKeys
      /\ \A key \in FileKeys : \E f \in FilesRead : f.tissue = key[1] /\ f.fname = key[2]
      /\ _counts.columns = ExpectedColumns

C8_Witness ==
    /\ Loaded
    /\ TissueDirs = { berry, leaf }
    /\ \E e \in disk.entries : ~e.isdir
    /\ \E l \in disk.listings : name_md \in l.names
    /\ \A t \in TissueDirs : \E key \in FileKeys : key[1] = t
    /\ \E f \in FilesRead : f.raw.header = header_two

(***************************************************************************)
(* Claim about the dataset (specification Spec).                           *)
(***************************************************************************)

\* The label of each row of the dataset's metadata, in row order.
RowLabels == [i \in 1..Len(dataset.metadata.rows) |->
                dataset.metadata.rows[i][dataset.label_col]]

PresentLabels == { RowLabels[i] : i \in 1..Len(RowLabels) } \ { NoCultivar }

\* How many categories were seen before the first row that carries label l.
FirstSeenRank(l) ==
    LET first == CHOOSE i \in 1..Len(RowLabels) :
                    RowLabels[i] = l /\ \A j \in 1..(i - 1) : RowLabels[j] # l
    IN  Cardinality({ RowLabels[j] : j \in 1..(first - 1) } \ { NoCultivar })

\* How many categories sort before label l.
SortedRank(l) == Cardinality({ m \in PresentLabels : StrLess(m, l) })

\* C9 as stated: the categories are numbered 0..k-1 in the order in which they
\* are first seen along the samples, and label_to_name gives back the label of
\* every sample.
C9_FirstSeenLabels ==
    pc = "dataset" =>
      \A i \in 1..Len(RowLabels) :
         RowLabels[i] # NoCultivar =>
            /\ dataset.y[i] = FirstSeenRank(RowLabels[i])
            /\ label_to_name(dataset, dataset.y[i]) = RowLabels[i]

\* C9 as amended: the categories are numbered 0..k-1 in ascending order of their
\* values; label_to_name gives back the label of every row of the dataset's
\* metadata that has one, and a row without a label has index -1.
C9_SortedLabels ==
    pc = "dataset" =>
      /\ Len(dataset.y) = Len(RowLabels)
      /\ Len(dataset.label_categories) = Cardinality(PresentLabels)
      /\ \A i \in 1..Len(RowLabels) :
            IF RowLabels[i] = NoCultivar THEN dataset.y[i] = -1
            ELSE /\ dataset.y[i] = SortedRank(RowLabels[i])
                 /\ label_to_name(dataset, dataset.y[i]) = RowLabels[i]

C9_Witness ==
    /\ pc = "dataset"
    /\ dataset.label_col = "gse_accession"
    /\ Len(RowLabels) >= 2
    /\ StrLess(RowLabels[2], RowLabels[1])
    /\ dataset.y[1] = 1
    /\ dataset.y[2] = 0

(***************************************************************************)
(* Claim about _load_single_file (specification SpecParse).                *)
(***************************************************************************)

\* C5: the parsed table has one row per distinct gene id of the file, and each
\* cell is the sum, over the file's rows for that gene, of that sample column.
C5_DedupBySum ==
    (pc = "returned" /\ output.raised = "none") =>
      LET raw == input.raw
          df  == output.df
      IN  /\ Range(df.index) = RawGenes(raw)
          /\ Len(df.index) = Cardinality(RawGenes(raw))
          /\ Len(df.columns) = SampleColumns(raw)
          /\ \A r \in 1..Len(df.index), c \in 1..SampleColumns(raw) :
                df.values[r][c] = RawTotal(raw, df.index[r], c)

C5_Witness ==
    /\ pc = "returned"
    /\ output.raised = "none"
    /\ input.raw.header = header_two
    /\ Len(input.raw.rows) = 3
    /\ input.raw.rows[1][1] = g2
    /\ input.raw.rows[2][1] = g1
    /\ input.raw.rows[3][1] = g2
    /\ input.raw.rows[1][2] # input.raw.rows[3][2]
    /\ output.df.index = <<g1, g2>>

(***************************************************************************)
(* Claim about _parse_gse_from_filename (specification SpecGse).           *)
(***************************************************************************)

Digits == { "0", "1", "2", "3", "4", "5", "6", "7", "8", "9" }

\* The letters GSE in any case and a digit, from position i of s on.
AccessionAt(s, i) ==
    /\ i + 3 <= Len(s)
    /\ s[i] \in { "G", "g" }
    /\ s[i + 1] \in { "S", "s" }
    /\ s[i + 2] \in { "E", "e" }
    /\ s[i + 3] \in Digits

\* The last digit of the run of digits that starts at position i of s.
RunEnd(s, i) ==
    CHOOSE j \in i..Len(s) :
        /\ \A k \in i..j : s[k] \in Digits
        /\ j = Len(s) \/ s[j + 1] \notin Digits

\* C10: the accession is GSE followed by all the digits of the leftmost
\* occurrence of GSE-and-digits in the name, and UNKNOWN exactly when the name
\* has no such occurrence.
C10_FirstAccession ==
    pc = "returned" =>
      LET occ == { i \in 1..Len(input) : AccessionAt(input, i) }
      IN  IF occ = {} THEN output = UNKNOWN
          ELSE LET i == CHOOSE a \in occ : \A b \in occ : a <= b
                   j == RunEnd(input, i + 3)
               IN  /\ output # UNKNOWN
                   /\ Len(output) = j - i + 1
                   /\ SubSeq(output, 1, 3) = <<"G", "S", "E">>
                   /\ \A k \in 4..Len(output) : output[k] = input[i + k - 1]

C10_Witness ==
    /\ pc = "returned"
    /\ Cardinality({ i \in 1..Len(input) : AccessionAt(input, i) }) = 2
    /\ input[1] = "g"
    /\ output = <<"G", "S", "E", "2", "0">>

====
